---- MODULE Spec2Model ----
(***************************************************************************)
(* A model of the node collector of prometheus-slurm-exporter              *)
(* (src/nodes.go): the sinfo payload parser, the three aggregation         *)
(* functions, and NodesCollector's Describe and Collect, with Collect      *)
(* invoked by concurrent scrapes.                                          *)
(*                                                                         *)
(* float64 quantities are modelled as integers; a Go map is a TLA+         *)
(* function whose DOMAIN is the set of keys; a Go slice is a sequence      *)
(* (nil and the empty slice are both << >>); an error value is a record    *)
(* [isErr, msg] so that a non-nil error with an empty message differs      *)
(* from nil.                                                               *)
(***************************************************************************)
EXTENDS Integers, Sequences, FiniteSets, TLC

\* Longest node list of a payload.
MaxNodes == 2
\* Number of Collect invocations (hence Fetch calls) in one behaviour.
MaxCalls == 2

\* The scrape goroutines that may run Collect at the same time.
Collectors == {"s1", "s2"}

(***************************************************************************)
(* Data model                                                              *)
(***************************************************************************)

\* type NodeMetrics struct
NodeMetrics(v, partitions, state) ==
    [Hostname |-> "host", Cpus |-> v.Cpus, RealMemory |-> v.RealMemory,
     FreeMemory |-> v.FreeMemory, Partitions |-> partitions, State |-> state,
     AllocMemory |-> v.AllocMemory, AllocCpus |-> v.AllocCpus,
     IdleCpus |-> v.IdleCpus, Weight |-> v.Weight, CpuLoad |-> v.CpuLoad,
     Architecture |-> "x86_64"]

\* new(PartitionMetrics): every field zero.
ZeroPartitionMetrics ==
    [Cpus |-> 0, RealMemory |-> 0, FreeMemory |-> 0, AllocMemory |-> 0,
     AllocCpus |-> 0, CpuLoad |-> 0, IdleCpus |-> 0, Weight |-> 0]

\* make(map[string]...): the map with no key.
EmptyMap == [k \in {} |-> 0]

\* m[k] = v on a Go map.
MapPut(m, k, v) == [x \in (DOMAIN m) \cup {k} |-> IF x = k THEN v ELSE m[x]]

\* m[k] on a map[string]float64: the zero value when the key is absent.
MapGet(m, k) == IF k \in DOMAIN m THEN m[k] ELSE 0

\* error values: nil, and errors.New(msg).
NoError == [isErr |-> FALSE, msg |-> ""]
NewError(msg) == [isErr |-> TRUE, msg |-> msg]

(***************************************************************************)
(* Inputs                                                                  *)
(***************************************************************************)

Range(s) == {s[i] : i \in DOMAIN s}
SeqsUpTo(S, n) == UNION {[1..k -> S] : k \in 0..n}

\* Numeric contents of a node: all zero, all distinct and positive, and a
\* mix of zero, negative and positive values.
NodeValues ==
    { [Cpus |-> 0, RealMemory |-> 0, FreeMemory |-> 0, AllocMemory |-> 0,
       AllocCpus |-> 0, IdleCpus |-> 0, Weight |-> 0, CpuLoad |-> 0],
      [Cpus |-> 1, RealMemory |-> 2, FreeMemory |-> 3, AllocMemory |-> 4,
       AllocCpus |-> 5, IdleCpus |-> 6, Weight |-> 7, CpuLoad |-> 8],
      [Cpus |-> 2, RealMemory |-> 0, FreeMemory |-> -1, AllocMemory |-> 0,
       AllocCpus |-> 3, IdleCpus |-> 0, Weight |-> -2, CpuLoad |-> 0] }

\* The "partitions" list of a node is a JSON array: it may be empty, name
\* several partitions, and repeat a name.
PartitionLists ==
    { << >>, <<"batch">>, <<"gpu">>, <<"batch", "gpu">>, <<"batch", "batch">> }

States == {"idle", "alloc"}

Nodes ==
    {NodeMetrics(v, ps, s) : v \in NodeValues, ps \in PartitionLists, s \in States}

\* The two nodes of the end-to-end scenario, used by the scrapes.
ScrapeNodes ==
    { [Hostname |-> "node1", Cpus |-> 4, RealMemory |-> 16, FreeMemory |-> 9,
       Partitions |-> <<"batch">>, State |-> "idle", AllocMemory |-> 0,
       AllocCpus |-> 0, IdleCpus |-> 4, Weight |-> 1, CpuLoad |-> 0,
       Architecture |-> "x86_64"],
      [Hostname |-> "node2", Cpus |-> 8, RealMemory |-> 32, FreeMemory |-> 0,
       Partitions |-> <<"batch", "gpu">>, State |-> "alloc", AllocMemory |-> 32,
       AllocCpus |-> 8, IdleCpus |-> 0, Weight |-> 1, CpuLoad |-> 7,
       Architecture |-> "x86_64"] }

ErrorLists == { << >>, <<"">>, <<"e1">>, <<"e1", "e2">>, <<"e2", "e1">> }

\* A payload is the byte string Fetch returns.  Either json.Unmarshal rejects
\* it (valid = FALSE), or it is a JSON object holding some of the keys
\* "errors" and "nodes" ("meta" is never read) with their values.
Garbage == [valid |-> FALSE, keys |-> {}, errors |-> << >>, nodes |-> << >>]

\* The nil []byte a failed Fetch returns.
NilBytes == [valid |-> FALSE, keys |-> {}, errors |-> << >>, nodes |-> << >>]

Object(keys, errs, nodes) ==
    [valid |-> TRUE, keys |-> keys,
     errors |-> IF "errors" \in keys THEN errs ELSE << >>,
     nodes |-> IF "nodes" \in keys THEN nodes ELSE << >>]

ObjectsOver(errLists, nodeLists) ==
    {Object({"errors", "nodes"}, e, n) : e \in errLists, n \in nodeLists}
        \cup {Object({"nodes"}, << >>, n) : n \in nodeLists}
        \cup {Object({"errors"}, e, << >>) : e \in errLists}
        \cup {Object({}, << >>, << >>)}

(***************************************************************************)
(* parseNodeMetrics                                                        *)
(***************************************************************************)

\* json.Unmarshal(jsonNodeList, &squeue) into a zero sinfoResponse: a key the
\* object lacks leaves the field nil.
JsonUnmarshal(jsonNodeList) ==
    IF ~jsonNodeList.valid
    THEN [err |-> NewError("invalid character"), Errors |-> << >>, Nodes |-> << >>]
    ELSE [err |-> NoError,
          Errors |-> IF "errors" \in jsonNodeList.keys
                     THEN jsonNodeList.errors ELSE << >>,
          Nodes |-> IF "nodes" \in jsonNodeList.keys
                    THEN jsonNodeList.nodes ELSE << >>]

\* A parser that trusts the node list whatever the errors list says.
parseNodeMetricsIgnoringErrors(jsonNodeList) ==
    LET squeue == JsonUnmarshal(jsonNodeList)
    IN  IF squeue.err.isErr
        THEN [nodes |-> << >>, err |-> squeue.err]
        ELSE [nodes |-> squeue.Nodes, err |-> NoError]

parseNodeMetrics(jsonNodeList) ==
    LET squeue == JsonUnmarshal(jsonNodeList)
    IN  IF squeue.err.isErr
        THEN [nodes |-> << >>, err |-> squeue.err]
        ELSE IF Len(squeue.Errors) > 0
             THEN [nodes |-> << >>, err |-> NewError(squeue.Errors[1])]
             ELSE [nodes |-> squeue.Nodes, err |-> NoError]

(***************************************************************************)
(* Aggregation                                                             *)
(***************************************************************************)

\* The eight += of the inner loop body.
AddNode(partition, node) ==
    [Cpus |-> partition.Cpus + node.Cpus,
     RealMemory |-> partition.RealMemory + node.RealMemory,
     FreeMemory |-> partition.FreeMemory + node.FreeMemory,
     AllocMemory |-> partition.AllocMemory + node.AllocMemory,
     AllocCpus |-> partition.AllocCpus + node.AllocCpus,
     IdleCpus |-> partition.IdleCpus + node.IdleCpus,
     Weight |-> partition.Weight + node.Weight,
     CpuLoad |-> partition.CpuLoad + node.CpuLoad]

\* for _, p := range node.Partitions { ... }
RECURSIVE PartitionInnerLoop(_, _, _)
PartitionInnerLoop(partitions, node, ps) ==
    IF ps = << >>
    THEN partitions
    ELSE LET p == Head(ps)
             partition == IF p \in DOMAIN partitions
                          THEN partitions[p] ELSE ZeroPartitionMetrics
         IN  PartitionInnerLoop(MapPut(partitions, p, AddNode(partition, node)),
                                node, Tail(ps))

\* for _, node := range nodes { ... }
RECURSIVE PartitionOuterLoop(_, _)
PartitionOuterLoop(partitions, nodes) ==
    IF nodes = << >>
    THEN partitions
    ELSE PartitionOuterLoop(
             PartitionInnerLoop(partitions, Head(nodes), Head(nodes).Partitions),
             Tail(nodes))

fetchNodePartitionMetrics(nodes) == PartitionOuterLoop(EmptyMap, nodes)

RECURSIVE CpuLoop(_, _)
CpuLoop(cpuSummaryMetrics, nodes) ==
    IF nodes = << >>
    THEN cpuSummaryMetrics
    ELSE LET node == Head(nodes)
         IN  CpuLoop(
                 [Total |-> cpuSummaryMetrics.Total + node.Cpus,
                  Idle |-> cpuSummaryMetrics.Idle + node.IdleCpus,
                  Load |-> cpuSummaryMetrics.Load + node.CpuLoad,
                  PerState |-> MapPut(cpuSummaryMetrics.PerState, node.State,
                                      MapGet(cpuSummaryMetrics.PerState, node.State)
                                          + node.Cpus)],
                 Tail(nodes))

\* A summary whose per-state bucket adds the idle cpus instead of the cpus.
RECURSIVE CpuLoopIdlePerState(_, _)
CpuLoopIdlePerState(cpuSummaryMetrics, nodes) ==
    IF nodes = << >>
    THEN cpuSummaryMetrics
    ELSE LET node == Head(nodes)
         IN  CpuLoopIdlePerState(
                 [Total |-> cpuSummaryMetrics.Total + node.Cpus,
                  Idle |-> cpuSummaryMetrics.Idle + node.IdleCpus,
                  Load |-> cpuSummaryMetrics.Load + node.CpuLoad,
                  PerState |-> MapPut(cpuSummaryMetrics.PerState, node.State,
                                      MapGet(cpuSummaryMetrics.PerState, node.State)
                                          + node.IdleCpus)],
                 Tail(nodes))

fetchNodeTotalCpuMetricsIdlePerState(nodes) ==
    CpuLoopIdlePerState([Total |-> 0, Idle |-> 0, Load |-> 0, PerState |-> EmptyMap],
                        nodes)

fetchNodeTotalCpuMetrics(nodes) ==
    CpuLoop([Total |-> 0, Idle |-> 0, Load |-> 0, PerState |-> EmptyMap], nodes)

RECURSIVE MemLoop(_, _)
MemLoop(memSummary, nodes) ==
    IF nodes = << >>
    THEN memSummary
    ELSE LET node == Head(nodes)
         IN  MemLoop(
                 [AllocMemory |-> memSummary.AllocMemory + node.AllocMemory,
                  FreeMemory |-> memSummary.FreeMemory + node.FreeMemory,
                  RealMemory |-> memSummary.RealMemory + node.RealMemory],
                 Tail(nodes))

fetchNodeTotalMemMetrics(nodes) ==
    MemLoop([AllocMemory |-> 0, FreeMemory |-> 0, RealMemory |-> 0], nodes)

(***************************************************************************)
(* NodesCollector                                                          *)
(***************************************************************************)

\* The set of orders in which a range over a Go map may visit its keys.
Orders(S) == {o \in [1..Cardinality(S) -> S] : Range(o) = S}

\* A sample on the channel: its descriptor (named by the NodesCollector field
\* that holds it), its value and its label values.
MustNewConstMetric(desc, value, labelValues) ==
    [desc |-> desc, value |-> value, labels |-> labelValues]

\* The counter sent as a metric; the value is the one the counter holds.
CounterMetric(value) ==
    [desc |-> "nodeScrapeErrors", value |-> value, labels |-> << >>]

\* An increment that is lost.
IncLost(c) == c

\* prometheus.Counter.Inc: one atomic addition.
Inc(c) == c + 1

\* The descriptors Describe sends, in order.
DescribeDescs ==
    <<"partitionCpus", "partitionRealMemory", "partitionFreeMemory",
      "partitionAllocMemory", "partitionAllocCpus", "partitionIdleCpus",
      "partitionWeight", "partitionCpuLoad", "totalCpus", "totalIdleCpus",
      "cpusPerState", "totalRealMemory", "totalFreeMemory", "totalAllocMemory",
      "nodeScrapeErrors">>

Emit(cond, sample) == IF cond THEN <<sample>> ELSE << >>

\* A loop body that lets a zero value through.
PartitionSamplesFromZero(partition, metric) ==
    Emit(metric.Cpus >= 0, MustNewConstMetric("partitionCpus", metric.Cpus, <<partition>>))
    \o Emit(metric.RealMemory >= 0, MustNewConstMetric("partitionRealMemory", metric.RealMemory, <<partition>>))
    \o Emit(metric.FreeMemory >= 0, MustNewConstMetric("partitionFreeMemory", metric.FreeMemory, <<partition>>))
    \o Emit(metric.AllocMemory >= 0, MustNewConstMetric("partitionAllocMemory", metric.AllocMemory, <<partition>>))
    \o Emit(metric.AllocCpus >= 0, MustNewConstMetric("partitionAllocCpus", metric.AllocCpus, <<partition>>))
    \o Emit(metric.IdleCpus >= 0, MustNewConstMetric("partitionIdleCpus", metric.IdleCpus, <<partition>>))
    \o Emit(metric.Weight >= 0, MustNewConstMetric("partitionWeight", metric.Weight, <<partition>>))
    \o Emit(metric.CpuLoad >= 0, MustNewConstMetric("partitionCpuLoad", metric.CpuLoad, <<partition>>))

\* The body of "for partition, metric := range partitionMetrics".
PartitionSamples(partition, metric) ==
    Emit(metric.Cpus > 0, MustNewConstMetric("partitionCpus", metric.Cpus, <<partition>>))
    \o Emit(metric.RealMemory > 0, MustNewConstMetric("partitionRealMemory", metric.RealMemory, <<partition>>))
    \o Emit(metric.FreeMemory > 0, MustNewConstMetric("partitionFreeMemory", metric.FreeMemory, <<partition>>))
    \o Emit(metric.AllocMemory > 0, MustNewConstMetric("partitionAllocMemory", metric.AllocMemory, <<partition>>))
    \o Emit(metric.AllocCpus > 0, MustNewConstMetric("partitionAllocCpus", metric.AllocCpus, <<partition>>))
    \o Emit(metric.IdleCpus > 0, MustNewConstMetric("partitionIdleCpus", metric.IdleCpus, <<partition>>))
    \o Emit(metric.Weight > 0, MustNewConstMetric("partitionWeight", metric.Weight, <<partition>>))
    \o Emit(metric.CpuLoad > 0, MustNewConstMetric("partitionCpuLoad", metric.CpuLoad, <<partition>>))

\* The partition loop, visiting the keys in the given order.
RECURSIVE PartitionSetSamples(_, _)
PartitionSetSamples(partitionMetrics, order) ==
    IF order = << >>
    THEN << >>
    ELSE PartitionSamples(Head(order), partitionMetrics[Head(order)])
         \o PartitionSetSamples(partitionMetrics, Tail(order))

RECURSIVE PerStateSamples(_, _)
PerStateSamples(perState, order) ==
    IF order = << >>
    THEN << >>
    ELSE <<MustNewConstMetric("cpusPerState", perState[Head(order)], <<Head(order)>>)>>
         \o PerStateSamples(perState, Tail(order))

\* A summary set that drops a zero total, as the partition set does.
CpuSetSamplesSuppressed(nodeCpuMetrics, order) ==
    Emit(nodeCpuMetrics.Total > 0, MustNewConstMetric("totalCpus", nodeCpuMetrics.Total, << >>))
    \o Emit(nodeCpuMetrics.Idle > 0, MustNewConstMetric("totalIdleCpus", nodeCpuMetrics.Idle, << >>))
    \o Emit(nodeCpuMetrics.Load > 0, MustNewConstMetric("totalCpuLoad", nodeCpuMetrics.Load, << >>))
    \o PerStateSamples(nodeCpuMetrics.PerState, order)

\* The node cpu summary set.
CpuSetSamples(nodeCpuMetrics, order) ==
    <<MustNewConstMetric("totalCpus", nodeCpuMetrics.Total, << >>),
      MustNewConstMetric("totalIdleCpus", nodeCpuMetrics.Idle, << >>),
      MustNewConstMetric("totalCpuLoad", nodeCpuMetrics.Load, << >>)>>
    \o PerStateSamples(nodeCpuMetrics.PerState, order)

\* The node mem summary set.
MemSetSamples(memMetrics) ==
    <<MustNewConstMetric("totalRealMemory", memMetrics.RealMemory, << >>),
      MustNewConstMetric("totalFreeMemory", memMetrics.FreeMemory, << >>),
      MustNewConstMetric("totalAllocMemory", memMetrics.AllocMemory, << >>)>>

\* A body whose parse-failure branch returns without counting the failure.
CollectBodyParseUncounted(bytes, fetchError, counter) ==
    IF fetchError.isErr
    THEN {[counter |-> Inc(counter), sent |-> << >>]}
    ELSE LET parsed == parseNodeMetrics(bytes)
         IN  IF parsed.err.isErr
             THEN {[counter |-> counter, sent |-> << >>]}
             ELSE LET partitionMetrics == fetchNodePartitionMetrics(parsed.nodes)
                      nodeCpuMetrics == fetchNodeTotalCpuMetrics(parsed.nodes)
                      memMetrics == fetchNodeTotalMemMetrics(parsed.nodes)
                  IN  {[counter |-> counter,
                        sent |-> PartitionSetSamples(partitionMetrics, po)
                                 \o CpuSetSamples(nodeCpuMetrics, so)
                                 \o MemSetSamples(memMetrics)] :
                          po \in Orders(DOMAIN partitionMetrics),
                          so \in Orders(DOMAIN nodeCpuMetrics.PerState)}

\* What Collect does between the return of Fetch and its own return, given
\* the counter it finds: the counter it leaves and the samples it sends, one
\* outcome for each order in which the two map ranges may run.
CollectBody(bytes, fetchError, counter) ==
    IF fetchError.isErr
    THEN {[counter |-> Inc(counter), sent |-> << >>]}
    ELSE LET parsed == parseNodeMetrics(bytes)
         IN  IF parsed.err.isErr
             THEN {[counter |-> Inc(counter), sent |-> << >>]}
             ELSE LET partitionMetrics == fetchNodePartitionMetrics(parsed.nodes)
                      nodeCpuMetrics == fetchNodeTotalCpuMetrics(parsed.nodes)
                      memMetrics == fetchNodeTotalMemMetrics(parsed.nodes)
                  IN  {[counter |-> counter,
                        sent |-> PartitionSetSamples(partitionMetrics, po)
                                 \o CpuSetSamples(nodeCpuMetrics, so)
                                 \o MemSetSamples(memMetrics)] :
                          po \in Orders(DOMAIN partitionMetrics),
                          so \in Orders(DOMAIN nodeCpuMetrics.PerState)}

\* What Fetch may return: a failure, or one of the payloads.
ScrapePayloads ==
    {Garbage, Object({"errors", "nodes"}, <<"e1", "e2">>, << >>)}
        \cup {Object({"errors", "nodes"}, << >>, n) : n \in SeqsUpTo(ScrapeNodes, MaxNodes)}

FetchResults ==
    {[bytes |-> NilBytes, err |-> NewError("exit status 1")]}
        \cup {[bytes |-> b, err |-> NoError] : b \in ScrapePayloads}

(***************************************************************************)
(* State                                                                   *)
(***************************************************************************)

VARIABLES
    pc,                 \* where each scrape's Collect is
    sinfo,              \* Collect's sinfo: what Fetch returned to the scrape
    err,                \* Collect's err after Fetch
    ch,                 \* the samples each Collect has sent on its channel
    nodeScrapeErrors,   \* the value of the nodeScrapeErrors counter
    descs,              \* the descriptors Describe has sent
    fetchCalls,         \* calls of Fetch so far (a counting fetcher)
    failedCycles,       \* cycles whose fetch or parse failed, so far
    before,             \* the counter when each scrape's cycle began
    overlapped,         \* whether another cycle ran during the scrape's cycle
    jsonNodeList,       \* the input of the aggregation run
    step,               \* where the aggregation run is
    nodeMetrics,        \* the result of parseNodeMetrics
    partitionMetrics,   \* the result of fetchNodePartitionMetrics
    nodeCpuMetrics,     \* the result of fetchNodeTotalCpuMetrics
    memMetrics          \* the result of fetchNodeTotalMemMetrics

collectVars ==
    <<pc, sinfo, err, ch, nodeScrapeErrors, descs, fetchCalls, failedCycles,
      before, overlapped>>
runVars ==
    <<jsonNodeList, step, nodeMetrics, partitionMetrics, nodeCpuMetrics, memMetrics>>
vars == <<collectVars, runVars>>

Running(p) == pc[p] \in {"fetching", "returning"}

\* Whether the cycle of scrape p is one whose fetch or parse fails.
Fails(bytes, fetchError) == fetchError.isErr \/ parseNodeMetrics(bytes).err.isErr

\* NewNodeCollecter: the counter starts at 0, nothing is collected.
CollectInit ==
    /\ pc = [p \in Collectors |-> "idle"]
    /\ sinfo = [p \in Collectors |-> NilBytes]
    /\ err = [p \in Collectors |-> NoError]
    /\ ch = [p \in Collectors |-> << >>]
    /\ nodeScrapeErrors = 0
    /\ descs = << >>
    /\ fetchCalls = 0
    /\ failedCycles = 0
    /\ before = [p \in Collectors |-> 0]
    /\ overlapped = [p \in Collectors |-> FALSE]

RunIdle ==
    /\ step = "off"
    /\ nodeMetrics = [nodes |-> << >>, err |-> NoError]
    /\ partitionMetrics = EmptyMap
    /\ nodeCpuMetrics = [Total |-> 0, Idle |-> 0, Load |-> 0, PerState |-> EmptyMap]
    /\ memMetrics = [AllocMemory |-> 0, FreeMemory |-> 0, RealMemory |-> 0]

Init ==
    /\ CollectInit
    /\ jsonNodeList = Garbage
    /\ RunIdle

(***************************************************************************)
(* Describe and Collect                                                    *)
(***************************************************************************)

Describe ==
    /\ descs = << >>
    /\ descs' = DescribeDescs
    /\ UNCHANGED <<pc, sinfo, err, ch, nodeScrapeErrors, fetchCalls, failedCycles,
                   before, overlapped, runVars>>

\* A scrape enters Collect and calls nc.fetcher.Fetch(), which is now in
\* flight.  The cache the collector holds is not consulted.
CollectCall(p) ==
    /\ pc[p] \in {"idle", "done"}
    /\ fetchCalls < MaxCalls
    /\ pc' = [pc EXCEPT ![p] = "fetching"]
    /\ fetchCalls' = fetchCalls + 1
    /\ sinfo' = [sinfo EXCEPT ![p] = NilBytes]
    /\ err' = [err EXCEPT ![p] = NoError]
    /\ ch' = [ch EXCEPT ![p] = << >>]
    /\ before' = [before EXCEPT ![p] = nodeScrapeErrors]
    /\ overlapped' = [q \in Collectors |->
                        IF q = p THEN \E r \in Collectors \ {p} : Running(r)
                        ELSE IF Running(q) THEN TRUE ELSE overlapped[q]]
    /\ UNCHANGED <<nodeScrapeErrors, descs, failedCycles, runVars>>

\* Fetch returns, and Collect runs to its return statement (or its end).
CollectFetched(p) ==
    /\ pc[p] = "fetching"
    /\ \E res \in FetchResults :
         \E o \in CollectBody(res.bytes, res.err, nodeScrapeErrors) :
            /\ sinfo' = [sinfo EXCEPT ![p] = res.bytes]
            /\ err' = [err EXCEPT ![p] = res.err]
            /\ nodeScrapeErrors' = o.counter
            /\ ch' = [ch EXCEPT ![p] = o.sent]
            /\ failedCycles' = failedCycles + (IF Fails(res.bytes, res.err) THEN 1 ELSE 0)
    /\ pc' = [pc EXCEPT ![p] = "returning"]
    /\ UNCHANGED <<descs, fetchCalls, before, overlapped, runVars>>

\* A deferred function that runs before the body instead of after it.
CollectDeferredFirst(p) ==
    /\ pc[p] = "returning"
    /\ ch' = [ch EXCEPT ![p] = <<CounterMetric(nodeScrapeErrors)>> \o ch[p]]
    /\ pc' = [pc EXCEPT ![p] = "done"]
    /\ UNCHANGED <<sinfo, err, nodeScrapeErrors, descs, fetchCalls, failedCycles,
                   before, overlapped, runVars>>

\* The deferred function: ch <- nc.nodeScrapeErrors.
CollectDeferred(p) ==
    /\ pc[p] = "returning"
    /\ ch' = [ch EXCEPT ![p] = Append(ch[p], CounterMetric(nodeScrapeErrors))]
    /\ pc' = [pc EXCEPT ![p] = "done"]
    /\ UNCHANGED <<sinfo, err, nodeScrapeErrors, descs, fetchCalls, failedCycles,
                   before, overlapped, runVars>>

Next ==
    \/ Describe
    \/ \E p \in Collectors : CollectCall(p)
    \/ \E p \in Collectors : CollectFetched(p)
    \/ \E p \in Collectors : CollectDeferred(p)

Spec == Init /\ [][Next]_vars

(***************************************************************************)
(* One run of the parser and of the three aggregation functions, in the    *)
(* order Collect calls them, on an arbitrary payload.                      *)
(***************************************************************************)

RunPayloads ==
    {Garbage}
        \cup ObjectsOver(ErrorLists, SeqsUpTo(ScrapeNodes, MaxNodes))
        \cup {Object({"errors", "nodes"}, << >>, n) : n \in SeqsUpTo(Nodes, MaxNodes)}

RunInit ==
    /\ CollectInit
    /\ jsonNodeList \in RunPayloads
    /\ step = "start"
    /\ nodeMetrics = [nodes |-> << >>, err |-> NoError]
    /\ partitionMetrics = EmptyMap
    /\ nodeCpuMetrics = [Total |-> 0, Idle |-> 0, Load |-> 0, PerState |-> EmptyMap]
    /\ memMetrics = [AllocMemory |-> 0, FreeMemory |-> 0, RealMemory |-> 0]

RunParse ==
    /\ step = "start"
    /\ nodeMetrics' = parseNodeMetrics(jsonNodeList)
    /\ step' = IF nodeMetrics'.err.isErr THEN "failed" ELSE "parsed"
    /\ UNCHANGED <<collectVars, jsonNodeList, partitionMetrics, nodeCpuMetrics, memMetrics>>

RunPartition ==
    /\ step = "parsed"
    /\ partitionMetrics' = fetchNodePartitionMetrics(nodeMetrics.nodes)
    /\ step' = "partition"
    /\ UNCHANGED <<collectVars, jsonNodeList, nodeMetrics, nodeCpuMetrics, memMetrics>>

RunCpu ==
    /\ step = "partition"
    /\ nodeCpuMetrics' = fetchNodeTotalCpuMetrics(nodeMetrics.nodes)
    /\ step' = "cpu"
    /\ UNCHANGED <<collectVars, jsonNodeList, nodeMetrics, partitionMetrics, memMetrics>>

RunMem ==
    /\ step = "cpu"
    /\ memMetrics' = fetchNodeTotalMemMetrics(nodeMetrics.nodes)
    /\ step' = "done"
    /\ UNCHANGED <<collectVars, jsonNodeList, nodeMetrics, partitionMetrics, nodeCpuMetrics>>

RunNext == RunParse \/ RunPartition \/ RunCpu \/ RunMem

SpecRun == RunInit /\ [][RunNext]_vars

(***************************************************************************)
(* Properties                                                              *)
(***************************************************************************)

\* The sum of a field over the nodes at the given positions.
RECURSIVE SumAt(_, _, _)
SumAt(nodes, f, idx) ==
    IF idx = {}
    THEN 0
    ELSE LET i == CHOOSE j \in idx : TRUE
         IN  nodes[i][f] + SumAt(nodes, f, idx \ {i})

\* How many samples of a channel carry the descriptor and the label values.
Count(sent, desc, labels) ==
    Cardinality({i \in DOMAIN sent : sent[i].desc = desc /\ sent[i].labels = labels})

CountDesc(sent, desc) == Cardinality({i \in DOMAIN sent : sent[i].desc = desc})

Failed(p) == Fails(sinfo[p], err[p])
Succeeded(p) == pc[p] = "done" /\ ~Failed(p)
Collected(p) == parseNodeMetrics(sinfo[p]).nodes

PartitionDescs ==
    [Cpus |-> "partitionCpus", RealMemory |-> "partitionRealMemory",
     FreeMemory |-> "partitionFreeMemory", AllocMemory |-> "partitionAllocMemory",
     AllocCpus |-> "partitionAllocCpus", IdleCpus |-> "partitionIdleCpus",
     Weight |-> "partitionWeight", CpuLoad |-> "partitionCpuLoad"]

\* C1: concurrent Collect invocations share one Fetcher.Fetch call: at no
\* time are two Fetch calls in flight together.
C1_OneFetchInFlight ==
    Cardinality({p \in Collectors : pc[p] = "fetching"}) <= 1

\* C2: a cycle whose fetch or parse fails sends exactly one sample, the error
\* counter, and, when no other cycle overlaps it, the value is one more than
\* the counter held when the cycle began.
C2_FailedCycleSendsOnlyCounter ==
    \A p \in Collectors :
        (pc[p] = "done" /\ Failed(p)) =>
            /\ Len(ch[p]) = 1
            /\ ch[p][1].desc = "nodeScrapeErrors"
            /\ (~overlapped[p] => ch[p][1].value = before[p] + 1)

\* A fetch failure and a parse failure, each in a finished cycle of its own
\* that nothing overlapped, the second after a counter already at 1.
C2_Witness ==
    \E p, q \in Collectors :
        /\ pc[p] = "done" /\ err[p].isErr /\ ~overlapped[p]
        /\ pc[q] = "done" /\ ~err[q].isErr /\ Failed(q) /\ ~overlapped[q]
        /\ before[q] = 1

\* C3: every cycle sends the error counter exactly once, as its last sample.
C3_CounterSentOnceAndLast ==
    \A p \in Collectors :
        /\ pc[p] = "done" =>
              /\ Len(ch[p]) >= 1
              /\ ch[p][Len(ch[p])].desc = "nodeScrapeErrors"
              /\ CountDesc(ch[p], "nodeScrapeErrors") = 1
        /\ Running(p) => CountDesc(ch[p], "nodeScrapeErrors") = 0

\* A complete emission and a failed cycle, both finished.
C3_Witness ==
    \E p, q \in Collectors :
        /\ Succeeded(p) /\ Len(ch[p]) > 7
        /\ pc[q] = "done" /\ Failed(q)

\* C4: a decodable payload with a non-empty errors list fails with the first
\* entry as the message and yields no node; with an empty errors list it
\* yields its nodes list as it is and no failure.
C4_ParseErrorsFirst ==
    (step \notin {"off", "start"} /\ jsonNodeList.valid) =>
        IF jsonNodeList.errors # << >>
        THEN /\ nodeMetrics.err = NewError(jsonNodeList.errors[1])
             /\ nodeMetrics.nodes = << >>
        ELSE /\ nodeMetrics.err = NoError
             /\ nodeMetrics.nodes = jsonNodeList.nodes

\* A parsed payload with two different errors and a non-empty nodes list.
C4_Witness ==
    /\ step = "failed"
    /\ jsonNodeList.valid
    /\ Len(jsonNodeList.errors) = 2
    /\ jsonNodeList.errors[1] # jsonNodeList.errors[2]
    /\ jsonNodeList.nodes # << >>

\* C5: in a successful cycle, each (partition, field) pair of the partition
\* aggregate has a sample exactly when the accumulated value is positive,
\* and the sample carries that value.
C5_PartitionZeroSuppressed ==
    \A p \in Collectors :
        Succeeded(p) =>
            LET agg == fetchNodePartitionMetrics(Collected(p))
            IN  \A part \in DOMAIN agg : \A f \in DOMAIN PartitionDescs :
                    /\ Count(ch[p], PartitionDescs[f], <<part>>)
                           = (IF agg[part][f] > 0 THEN 1 ELSE 0)
                    /\ \A i \in DOMAIN ch[p] :
                           (ch[p][i].desc = PartitionDescs[f] /\ ch[p][i].labels = <<part>>)
                               => ch[p][i].value = agg[part][f]

\* A successful cycle with a partition that has a zero field and a positive one.
C5_Witness ==
    \E p \in Collectors :
        /\ Succeeded(p)
        /\ \E part \in DOMAIN fetchNodePartitionMetrics(Collected(p)) :
              /\ fetchNodePartitionMetrics(Collected(p))[part].AllocCpus = 0
              /\ fetchNodePartitionMetrics(Collected(p))[part].Cpus > 0
              /\ Count(ch[p], "partitionCpus", <<part>>) = 1
              /\ Count(ch[p], "partitionAllocCpus", <<part>>) = 0

\* C6: a successful cycle sends each of the three cpu totals and the three
\* memory totals once, zero or not, and one per-state sample for each state
\* occurring among the nodes and for no other.
C6_ClusterTotalsUnconditional ==
    \A p \in Collectors :
        Succeeded(p) =>
            /\ \A d \in {"totalCpus", "totalIdleCpus", "totalCpuLoad",
                         "totalRealMemory", "totalFreeMemory", "totalAllocMemory"} :
                   Count(ch[p], d, << >>) = 1
            /\ \A s \in {Collected(p)[i].State : i \in DOMAIN Collected(p)} :
                   Count(ch[p], "cpusPerState", <<s>>) = 1
            /\ CountDesc(ch[p], "cpusPerState")
                   = Cardinality({Collected(p)[i].State : i \in DOMAIN Collected(p)})

\* A successful cycle on an empty node list, whose totals are all zero.
C6_Witness ==
    \E p \in Collectors :
        /\ Succeeded(p)
        /\ Collected(p) = << >>
        /\ Count(ch[p], "totalCpus", << >>) = 1

\* C7: every descriptor of a sample Collect sends is one Describe sent, and
\* Describe sends no descriptor twice.
C7_DescribeCoversCollect ==
    descs # << >> =>
        /\ \A p \in Collectors : \A i \in DOMAIN ch[p] : ch[p][i].desc \in Range(descs)
        /\ \A i, j \in DOMAIN descs : descs[i] = descs[j] => i = j

\* C8: the partition aggregate has for keys the partitions some node lists,
\* and each field of a key is the sum of the field over the nodes that list
\* the key, each counted once.
C8_PartitionSums ==
    step \in {"partition", "cpu", "done"} =>
        LET nodes == nodeMetrics.nodes
            listing(k) == {i \in DOMAIN nodes : k \in Range(nodes[i].Partitions)}
        IN  /\ DOMAIN partitionMetrics
                   = UNION {Range(nodes[i].Partitions) : i \in DOMAIN nodes}
            /\ \A k \in DOMAIN partitionMetrics : \A f \in DOMAIN PartitionDescs :
                   partitionMetrics[k][f] = SumAt(nodes, f, listing(k))

\* C9: the error counter never decreases, and whenever no cycle is running
\* it equals the number of cycles whose fetch or parse failed.
C9_CounterCountsFailures ==
    /\ []((\A p \in Collectors : ~Running(p)) => nodeScrapeErrors = failedCycles)
    /\ [][nodeScrapeErrors' >= nodeScrapeErrors]_vars

\* Two overlapping cycles that both failed, and both have finished.
C9_Witness ==
    /\ \A p \in Collectors : pc[p] = "done" /\ Failed(p) /\ overlapped[p]
    /\ nodeScrapeErrors >= 2

\* C10: each cpu and memory total is the direct sum of its node field, each
\* per-state entry the sum of the cpus of the nodes in that state, and on
\* the empty list the totals are zero and both maps are empty.
C10_SummariesAreDirectSums ==
    step = "done" =>
        LET nodes == nodeMetrics.nodes
            all == DOMAIN nodes
            inState(s) == {i \in all : nodes[i].State = s}
        IN  /\ nodeCpuMetrics.Total = SumAt(nodes, "Cpus", all)
            /\ nodeCpuMetrics.Idle = SumAt(nodes, "IdleCpus", all)
            /\ nodeCpuMetrics.Load = SumAt(nodes, "CpuLoad", all)
            /\ DOMAIN nodeCpuMetrics.PerState = {nodes[i].State : i \in all}
            /\ \A s \in DOMAIN nodeCpuMetrics.PerState :
                   nodeCpuMetrics.PerState[s] = SumAt(nodes, "Cpus", inState(s))
            /\ memMetrics.AllocMemory = SumAt(nodes, "AllocMemory", all)
            /\ memMetrics.FreeMemory = SumAt(nodes, "FreeMemory", all)
            /\ memMetrics.RealMemory = SumAt(nodes, "RealMemory", all)
            /\ nodes = << >> =>
                   /\ DOMAIN partitionMetrics = {}
                   /\ DOMAIN nodeCpuMetrics.PerState = {}
                   /\ nodeCpuMetrics.Total = 0 /\ nodeCpuMetrics.Idle = 0
                   /\ nodeCpuMetrics.Load = 0 /\ memMetrics.AllocMemory = 0
                   /\ memMetrics.FreeMemory = 0 /\ memMetrics.RealMemory = 0

\* A finished run on two nodes in different states whose cpus and idle cpus differ.
C10_Witness ==
    /\ step = "done"
    /\ Len(nodeMetrics.nodes) = 2
    /\ nodeMetrics.nodes[1].State # nodeMetrics.nodes[2].State
    /\ nodeCpuMetrics.PerState[nodeMetrics.nodes[1].State] # nodeMetrics.nodes[1].IdleCpus
    /\ nodeCpuMetrics.Total > 0

====
